---- MODULE Spec2Model ----
(***************************************************************************)
(* Model of the Slack webhook endpoints of the plugin:                     *)
(*   endpoints/slack-bot-next.py  SlackEndpoint._invoke                    *)
(*   endpoints/verify_only.py     VerifyOnlyEndpoint._invoke               *)
(* One inbound request is handled at a time.  pc is the position of the    *)
(* handler in its code; backend_calls and post_calls record the outbound   *)
(* calls made for the request in hand.                                     *)
(*                                                                         *)
(* Python strings whose characters matter (event.text, challenge, the JSON *)
(* text of the challenge response) are sequences of one-character strings. *)
(* Other Python strings (ids, fixed messages) are TLA+ strings.            *)
(***************************************************************************)
EXTENDS Integers, Sequences, FiniteSets, TLC

VARIABLES
    pc,             \* position of the handler
    endpoint,       \* "slack" (SlackEndpoint) or "verify" (VerifyOnlyEndpoint)
    r,              \* the inbound request: body and the two retry headers
    settings,       \* the plugin settings handed to _invoke
    data,           \* local `data`: the parsed body
    channel,        \* local `channel`
    message,        \* local `message`
    response_data,  \* local `response_data`: what the backend returned
    response,       \* the Response returned, NoResponse while none is
    raised,         \* the exception that left _invoke, None while none has
    backend_calls,  \* calls of self.session.app.chat.invoke, in order
    post_calls      \* calls of client.chat_postMessage, in order

vars == <<pc, endpoint, r, settings, data, channel, message, response_data,
          response, raised, backend_calls, post_calls>>

\* Python's None, and a dictionary key that is absent (dict.get gives None).
None == "None"

\* Longest event.text enumerated by the mention-extraction specification.
MaxTextLen == 5

----------------------------------------------------------------------------
(* Strings as character sequences *)

\* The characters of event.text: the three punctuation characters of a
\* mention token, one word character (\w) and one whitespace character (\s).
TextChars == {"<", "@", ">", "U", " "}

IsWord(c) == c = "U"

IsSpace(c) == c = " "

RECURSIVE SeqsUpTo(_, _)
SeqsUpTo(S, n) ==
    IF n = 0 THEN {<<>>}
    ELSE LET shorter == SeqsUpTo(S, n - 1)
         IN  shorter \cup {Append(s, c) : s \in {t \in shorter : Len(t) = n - 1}, c \in S}

\* "<@U> U U": a mention followed by two words, as "<@U123> hello there"
MentionHelloThere == <<"<", "@", "U", ">", " ", "U", " ", "U">>

\* "U <@U> U": a mention in the middle of the text
MidMention == <<"U", " ", "<", "@", "U", ">", " ", "U">>

\* The texts of the events of the main specification.
SampleTexts ==
    { <<>>, <<"U">>, <<" ">>, <<"<", "@", "U", ">">>, <<"<", "@", "U", ">", " ">>,
      MentionHelloThere, MidMention }

----------------------------------------------------------------------------
(* re.sub(r"<@\w+>\s*", "", raw_message).strip() *)

\* First position at or after i that holds no word character.
WordRunEnd(s, i) ==
    CHOOSE j \in i..(Len(s) + 1) :
        /\ \A k \in i..(j - 1) : IsWord(s[k])
        /\ j = Len(s) + 1 \/ ~IsWord(s[j])

\* First position at or after i that holds no whitespace.
SpaceRunEnd(s, i) ==
    CHOOSE j \in i..(Len(s) + 1) :
        /\ \A k \in i..(j - 1) : IsSpace(s[k])
        /\ j = Len(s) + 1 \/ ~IsSpace(s[j])

\* A match of <@\w+>\s* that starts at position i ends just before
\* MatchEnd(s, i); 0 when the pattern does not match at i.  \w+ and \s* are
\* greedy, and no shorter run of \w can be followed by ">".
MatchEnd(s, i) ==
    IF i + 3 <= Len(s) /\ s[i] = "<" /\ s[i + 1] = "@" /\ IsWord(s[i + 2])
    THEN LET w == WordRunEnd(s, i + 2)
         IN  IF w <= Len(s) /\ s[w] = ">" THEN SpaceRunEnd(s, w + 1) ELSE 0
    ELSE 0

\* A substitution anchored at the start of the text: only the run of mention
\* tokens that begins the text is removed.
RECURSIVE ReSubLeadingOnly(_, _)
ReSubLeadingOnly(s, i) ==
    IF i > Len(s) THEN <<>>
    ELSE IF MatchEnd(s, i) # 0 THEN ReSubLeadingOnly(s, MatchEnd(s, i))
    ELSE SubSeq(s, i, Len(s))

\* re.sub scans from the left from position i: a match is replaced by the
\* empty string and the scan resumes after it, any other character is kept.
RECURSIVE ReSub(_, _)
ReSub(s, i) ==
    IF i > Len(s) THEN <<>>
    ELSE IF MatchEnd(s, i) # 0 THEN ReSub(s, MatchEnd(s, i))
    ELSE <<s[i]>> \o ReSub(s, i + 1)

\* str.strip()
Strip(s) ==
    LET solid == {k \in 1..Len(s) : ~IsSpace(s[k])}
    IN  IF solid = {} THEN <<>>
        ELSE SubSeq(s, CHOOSE a \in solid : \A b \in solid : a <= b,
                       CHOOSE a \in solid : \A b \in solid : a >= b)

\* line 88
ExtractMention(raw_message) == Strip(ReSub(raw_message, 1))

----------------------------------------------------------------------------
(* json.dumps({"challenge": challenge_value}) *)

\* The challenges of the requests: empty, a letter, and the two characters
\* JSON escapes (the quote and the backslash).
SampleChallenges == { <<>>, <<"a">>, <<"a", "\"", "a">>, <<"\\">> }

\* The body of a JSON string: a quote and a backslash get a backslash.
RECURSIVE JsonEscape(_)
JsonEscape(s) ==
    IF s = <<>> THEN <<>>
    ELSE (IF Head(s) \in {"\"", "\\"} THEN <<"\\", Head(s)>> ELSE <<Head(s)>>)
         \o JsonEscape(Tail(s))

JsonQuote(s) == <<"\"">> \o JsonEscape(s) \o <<"\"">>

\* json.dumps of a dictionary with the one key "challenge": the key, ": ",
\* the value, in braces.
JsonDumpsChallenge(challenge_value) ==
    <<"{">> \o JsonQuote(<<"c", "h", "a", "l", "l", "e", "n", "g", "e">>)
            \o <<":", " ">> \o JsonQuote(challenge_value) \o <<"}">>

----------------------------------------------------------------------------
(* Requests and settings *)

\* A JSON value stands for its class: "falsy" (null, {}, [], 0, "", false),
\* "nondict" (a truthy value that is no object: it has no .get) or "dict"
\* (an object with at least one key; a key not listed below is absent).
Truthy(v) == v.t # "falsy"

NoEvent == [t |-> "falsy", type |-> None, channel_type |-> None,
            bot_id |-> None, text |-> <<>>, channel |-> None]

EventsOver(texts) ==
    { NoEvent, [NoEvent EXCEPT !.t = "nondict"] }
    \cup [t : {"dict"}, type : {"app_mention", "message", "other"},
          channel_type : {"im", "channel"}, bot_id : {None, "B1"},
          text : texts, channel : {None, "C1"}]

\* local `data` when the body is empty; also what a falsy JSON value gives
NoData == [t |-> "falsy", type |-> None, has_challenge |-> FALSE,
           challenge |-> <<>>, event |-> NoEvent]

PayloadsOver(texts) ==
    { NoData, [NoData EXCEPT !.t = "nondict"],
      [NoData EXCEPT !.t = "dict", !.type = "other"] }
    \cup { [NoData EXCEPT !.t = "dict", !.type = "url_verification"] }
    \cup { [NoData EXCEPT !.t = "dict", !.type = "url_verification",
                          !.has_challenge = TRUE, !.challenge = c] :
           c \in SampleChallenges }
    \cup { [NoData EXCEPT !.t = "dict", !.type = "event_callback", !.event = e] :
           e \in EventsOver(texts) }

\* r.get_data(as_text=True): the empty string, a text that is no JSON, or
\* the text of the JSON value `value`.
BodiesOver(texts) ==
    { [kind |-> "empty", value |-> NoData], [kind |-> "invalid", value |-> NoData] }
    \cup { [kind |-> "json", value |-> v] : v \in PayloadsOver(texts) }

\* X-Slack-Retry-Num and X-Slack-Retry-Reason; None when the header is absent.
RetryNums == {None, "0", "1", "abc"}

RetryReasons == {None, "http_timeout"}

RequestsOver(texts) ==
    [body : BodiesOver(texts), retry_num : RetryNums, retry_reason : RetryReasons]

\* settings["app"]: absent or empty ("falsy"), the app-selector's dictionary
\* with or without an app_id ("dict"), or a truthy value with no .get.
AppSettings ==
    { [t |-> "falsy", app_id |-> None], [t |-> "nondict", app_id |-> None],
      [t |-> "dict", app_id |-> None], [t |-> "dict", app_id |-> "app1"] }

SettingsSet ==
    [allow_retry : {None, "False", "True"}, bot_token : {None, "", "xoxb"},
     app : AppSettings]

NoRequest == [body |-> [kind |-> "empty", value |-> NoData],
              retry_num |-> None, retry_reason |-> None]

NoSettings == [allow_retry |-> None, bot_token |-> None,
               app |-> [t |-> "falsy", app_id |-> None]]

\* What self.session.app.chat.invoke can do: raise, or return a dictionary
\* with or without "answer", or return something that has no .get.
NoResponseData == [t |-> "falsy", has_answer |-> FALSE, answer |-> ""]

BackendReturns ==
    { [t |-> "dict", has_answer |-> TRUE, answer |-> "A1"],
      [t |-> "dict", has_answer |-> FALSE, answer |-> ""],
      [t |-> "nondict", has_answer |-> FALSE, answer |-> ""] }

\* What client.chat_postMessage can do: return, raise SlackApiError, or
\* raise another exception (a connection error, SlackRequestError, ...).
PostResults == {"ok", "SlackApiError", "Exception"}

\* werkzeug's Response(status=..., response=...); json holds the body when
\* it is the JSON text of the challenge response.
Resp(status, text) ==
    [status |-> status, response |-> text, json |-> <<>>,
     content_type |-> "text/plain; charset=utf-8"]

NoResponse == [status |-> 0, response |-> "", json |-> <<>>, content_type |-> ""]

----------------------------------------------------------------------------
Init ==
    /\ pc = "idle"
    /\ endpoint = "slack"
    /\ r = NoRequest
    /\ settings = NoSettings
    /\ data = NoData
    /\ channel = ""
    /\ message = <<>>
    /\ response_data = NoResponseData
    /\ response = NoResponse
    /\ raised = None
    /\ backend_calls = <<>>
    /\ post_calls = <<>>

\* The host hands a request and the settings to one of the two endpoints.
Receive ==
    /\ pc = "idle"
    /\ \E ep \in {"slack", "verify"}, req \in RequestsOver(SampleTexts), st \in SettingsSet :
          /\ endpoint' = ep
          /\ r' = req
          /\ settings' = st
          /\ pc' = IF ep = "slack" THEN "parse" ELSE "v_parse"
    /\ UNCHANGED <<data, channel, message, response_data, response, raised,
                   backend_calls, post_calls>>

----------------------------------------------------------------------------
(* SlackEndpoint._invoke *)

\* The body is parsed; a text that is no JSON is passed on like an empty one.
ParseBodyLenient ==
    /\ pc = "parse"
    /\ data' = IF r.body.kind = "json" THEN r.body.value ELSE NoData
    /\ pc' = "url_verification"
    /\ UNCHANGED <<endpoint, r, settings, channel, message, response_data,
                   response, raised, backend_calls, post_calls>>

\* lines 22-33: data stays None for an empty body; JSONDecodeError gives 400.
ParseBody ==
    /\ pc = "parse"
    /\ IF r.body.kind = "invalid"
       THEN /\ response' = Resp(400, "Bad Request: Invalid JSON")
            /\ pc' = "done"
            /\ data' = data
       ELSE /\ data' = IF r.body.kind = "json" THEN r.body.value ELSE NoData
            /\ pc' = "url_verification"
            /\ response' = response
    /\ UNCHANGED <<endpoint, r, settings, channel, message, response_data,
                   raised, backend_calls, post_calls>>

\* int(retry_num) is defined on the decimal literals.
IsIntLiteral(s) == s \in {"0", "1"}

PyInt(s) == IF s = "0" THEN 0 ELSE 1

\* The two retry headers joined by `and`.
RetryDecisionBoth(allow_retry, retry_num, retry_reason) ==
    IF allow_retry = "True" THEN "continue"
    ELSE IF retry_reason # "http_timeout" THEN "continue"
    ELSE IF retry_num = None THEN "continue"
    ELSE IF ~IsIntLiteral(retry_num) THEN "ValueError"
    ELSE IF PyInt(retry_num) > 0 THEN "ignore" ELSE "continue"

\* line 58: not allow_retry and (retry_reason == "http_timeout" or
\* (retry_num is not None and int(retry_num) > 0)), evaluated left to right
\* with short circuit; int() raises ValueError on a text that is no integer.
\* allow_retry is settings.get("allow_retry", False).
RetryDecision(allow_retry, retry_num, retry_reason) ==
    IF allow_retry = "True" THEN "continue"
    ELSE IF retry_reason = "http_timeout" THEN "ignore"
    ELSE IF retry_num = None THEN "continue"
    ELSE IF ~IsIntLiteral(retry_num) THEN "ValueError"
    ELSE IF PyInt(retry_num) > 0 THEN "ignore" ELSE "continue"

\* The retry check placed before the challenge check.
UrlVerificationAfterRetry ==
    /\ pc = "url_verification"
    /\ IF RetryDecision(settings.allow_retry, r.retry_num, r.retry_reason) = "ignore"
       THEN /\ response' = Resp(200, "ok, retry ignored")
            /\ pc' = "done"
            /\ raised' = raised
       ELSE IF ~Truthy(data) THEN
            /\ pc' = "retry"
            /\ UNCHANGED <<response, raised>>
       ELSE IF data.t = "nondict" THEN
            /\ raised' = "AttributeError"
            /\ pc' = "done"
            /\ response' = response
       ELSE IF data.type # "url_verification" THEN
            /\ pc' = "retry"
            /\ UNCHANGED <<response, raised>>
       ELSE /\ response' =
                  IF data.has_challenge /\ data.challenge # <<>>
                  THEN [status |-> 200, response |-> "",
                        json |-> JsonDumpsChallenge(data.challenge),
                        content_type |-> "application/json"]
                  ELSE Resp(400, "Bad Request: Missing 'challenge' parameter for url_verification.")
            /\ pc' = "done"
            /\ raised' = raised
    /\ UNCHANGED <<endpoint, r, settings, data, channel, message, response_data,
                   backend_calls, post_calls>>

\* lines 35-50: `data and data.get("type") == "url_verification"`; data.get
\* raises AttributeError when data is truthy and no dictionary.
UrlVerification ==
    /\ pc = "url_verification"
    /\ IF ~Truthy(data) THEN
            /\ pc' = "retry"
            /\ UNCHANGED <<response, raised>>
       ELSE IF data.t = "nondict" THEN
            /\ raised' = "AttributeError"
            /\ pc' = "done"
            /\ response' = response
       ELSE IF data.type # "url_verification" THEN
            /\ pc' = "retry"
            /\ UNCHANGED <<response, raised>>
       ELSE /\ response' =
                  IF data.has_challenge /\ data.challenge # <<>>
                  THEN [status |-> 200, response |-> "",
                        json |-> JsonDumpsChallenge(data.challenge),
                        content_type |-> "application/json"]
                  ELSE Resp(400, "Bad Request: Missing 'challenge' parameter for url_verification.")
            /\ pc' = "done"
            /\ raised' = raised
    /\ UNCHANGED <<endpoint, r, settings, data, channel, message, response_data,
                   backend_calls, post_calls>>

\* lines 52-62
RetrySuppression ==
    /\ pc = "retry"
    /\ LET decision == RetryDecision(settings.allow_retry, r.retry_num, r.retry_reason)
       IN  CASE decision = "ignore" ->
                  /\ response' = Resp(200, "ok, retry ignored")
                  /\ pc' = "done"
                  /\ raised' = raised
             [] decision = "ValueError" ->
                  /\ raised' = "ValueError"
                  /\ pc' = "done"
                  /\ response' = response
             [] OTHER ->
                  /\ pc' = "event_callback"
                  /\ UNCHANGED <<response, raised>>
    /\ UNCHANGED <<endpoint, r, settings, data, channel, message, response_data,
                   backend_calls, post_calls>>

\* lines 64-77 and 168-172: the type, the event field and the bot_id filter;
\* event.get raises AttributeError when event is truthy and no dictionary.
EventCallback ==
    /\ pc = "event_callback"
    /\ IF ~(Truthy(data) /\ data.type = "event_callback") THEN
            /\ response' = Resp(200, "ok, ignored request type")
            /\ pc' = "done"
            /\ raised' = raised
       ELSE IF ~Truthy(data.event) THEN
            /\ response' = Resp(200, "ok, missing event field")
            /\ pc' = "done"
            /\ raised' = raised
       ELSE IF data.event.t = "nondict" THEN
            /\ raised' = "AttributeError"
            /\ pc' = "done"
            /\ response' = response
       ELSE IF data.event.bot_id # None THEN
            /\ response' = Resp(200, "ok, ignored bot message")
            /\ pc' = "done"
            /\ raised' = raised
       ELSE /\ pc' = "extract"
            /\ UNCHANGED <<response, raised>>
    /\ UNCHANGED <<endpoint, r, settings, data, channel, message, response_data,
                   backend_calls, post_calls>>

\* lines 79-98 and 164-167: channel and message; an event that is neither an
\* app_mention nor a direct message, or whose message is empty, is not processed.
ExtractMessage ==
    /\ pc = "extract"
    /\ LET event == data.event
           msg == IF event.type = "app_mention" THEN ExtractMention(event.text)
                  ELSE IF event.type = "message" /\ event.channel_type = "im"
                       THEN event.text
                  ELSE <<>>
       IN  /\ channel' = IF event.channel = None THEN "" ELSE event.channel
           /\ message' = msg
           /\ IF msg # <<>>
              THEN /\ pc' = "settings"
                   /\ response' = response
              ELSE /\ response' = Resp(200, "ok, no action needed")
                   /\ pc' = "done"
    /\ UNCHANGED <<endpoint, r, settings, data, response_data, raised,
                   backend_calls, post_calls>>

\* lines 100-112: the token, then the app; app_settings.get raises
\* AttributeError when settings["app"] is truthy and no dictionary.
CheckSettings ==
    /\ pc = "settings"
    /\ IF settings.bot_token \in {None, ""} THEN
            /\ response' = Resp(200, "ok, missing bot token setting")
            /\ pc' = "done"
            /\ raised' = raised
       ELSE IF settings.app.t = "nondict" THEN
            /\ raised' = "AttributeError"
            /\ pc' = "done"
            /\ response' = response
       ELSE IF ~Truthy(settings.app) \/ settings.app.app_id = None THEN
            /\ pc' = "config_notice"
            /\ UNCHANGED <<response, raised>>
       ELSE /\ pc' = "invoke"
            /\ UNCHANGED <<response, raised>>
    /\ UNCHANGED <<endpoint, r, settings, data, channel, message, response_data,
                   backend_calls, post_calls>>

\* lines 112-117: the configuration notice; only SlackApiError is caught.
PostConfigNotice ==
    /\ pc = "config_notice"
    /\ \E result \in PostResults :
          /\ post_calls' = Append(post_calls,
                 [site |-> "config_notice", channel |-> channel,
                  text |-> "Configuration Error: The target Dify App is not set correctly in the plugin settings.",
                  result |-> result])
          /\ IF result = "Exception"
             THEN /\ raised' = "Exception"
                  /\ response' = response
             ELSE /\ response' = Resp(200, "ok, missing app_id setting")
                  /\ raised' = raised
    /\ pc' = "done"
    /\ UNCHANGED <<endpoint, r, settings, data, channel, message, response_data,
                   backend_calls>>

\* lines 120-133 and the `except Exception` of line 153: the backend is
\* invoked with the app_id and query=message; an exception of the call, or
\* of response_data.get on a value that has none, leads to the handler of
\* line 153.
InvokeBackend ==
    /\ pc = "invoke"
    /\ \/ /\ backend_calls' = Append(backend_calls,
                 [app_id |-> settings.app.app_id, query |-> message,
                  outcome |-> "raised"])
          /\ response_data' = response_data
          /\ pc' = "internal_error"
       \/ \E returned \in BackendReturns :
             /\ backend_calls' = Append(backend_calls,
                    [app_id |-> settings.app.app_id, query |-> message,
                     outcome |-> "returned"])
             /\ response_data' = returned
             /\ pc' = IF returned.t = "dict" THEN "reply" ELSE "internal_error"
    /\ UNCHANGED <<endpoint, r, settings, data, channel, message, response,
                   raised, post_calls>>

\* The answer read under a key the backend never sets.
AnswerOfWrongKey(returned) == "Sorry, I could not get a response from the App."

\* line 132: response_data.get("answer", <fallback>)
AnswerOf(returned) ==
    IF returned.has_answer THEN returned.answer
    ELSE "Sorry, I could not get a response from the App."

\* The reply posted without a try of its own: every failure of the post is
\* handled by the `except Exception` of line 153.
PostReplyNoInnerTry ==
    /\ pc = "reply"
    /\ \E result \in PostResults :
          /\ post_calls' = Append(post_calls,
                 [site |-> "reply", channel |-> channel,
                  text |-> AnswerOf(response_data), result |-> result])
          /\ IF result = "ok"
             THEN /\ response' = Resp(200, "ok, message sent")
                  /\ pc' = "done"
             ELSE /\ pc' = "internal_error"
                  /\ response' = response
    /\ UNCHANGED <<endpoint, r, settings, data, channel, message, response_data,
                   raised, backend_calls>>

\* lines 135-151: the reply; SlackApiError is caught here, any other
\* exception of the post by the `except Exception` of line 153.
PostReply ==
    /\ pc = "reply"
    /\ \E result \in PostResults :
          /\ post_calls' = Append(post_calls,
                 [site |-> "reply", channel |-> channel,
                  text |-> AnswerOf(response_data), result |-> result])
          /\ CASE result = "ok" ->
                    /\ response' = Resp(200, "ok, message sent")
                    /\ pc' = "done"
               [] result = "SlackApiError" ->
                    /\ response' = Resp(200, "ok, slack api error posting message")
                    /\ pc' = "done"
               [] OTHER ->
                    /\ pc' = "internal_error"
                    /\ response' = response
    /\ UNCHANGED <<endpoint, r, settings, data, channel, message, response_data,
                   raised, backend_calls>>

\* lines 153-163: the internal-error notice; only SlackApiError is caught,
\* another exception of the post leaves _invoke.
NotifyInternalError ==
    /\ pc = "internal_error"
    /\ \E result \in PostResults :
          /\ post_calls' = Append(post_calls,
                 [site |-> "internal_error", channel |-> channel,
                  text |-> "Sorry, an internal error occurred while processing your request. Please contact the administrator.",
                  result |-> result])
          /\ IF result = "Exception"
             THEN /\ raised' = "Exception"
                  /\ response' = response
             ELSE /\ response' = Resp(200, "ok, internal server error")
                  /\ raised' = raised
    /\ pc' = "done"
    /\ UNCHANGED <<endpoint, r, settings, data, channel, message, response_data,
                   backend_calls>>

----------------------------------------------------------------------------
(* VerifyOnlyEndpoint._invoke *)

\* lines 19-36: an empty body and a body that is no JSON both give 400.
VerifyParseBody ==
    /\ pc = "v_parse"
    /\ CASE r.body.kind = "empty" ->
              /\ response' = Resp(400, "Bad Request: Empty body")
              /\ pc' = "done"
              /\ data' = data
         [] r.body.kind = "invalid" ->
              /\ response' = Resp(400, "Bad Request: Invalid JSON")
              /\ pc' = "done"
              /\ data' = data
         [] OTHER ->
              /\ data' = r.body.value
              /\ pc' = "v_url_verification"
              /\ response' = response
    /\ UNCHANGED <<endpoint, r, settings, channel, message, response_data,
                   raised, backend_calls, post_calls>>

\* lines 38-63
VerifyUrlVerification ==
    /\ pc = "v_url_verification"
    /\ IF ~Truthy(data) THEN
            /\ response' = Resp(200, "ok, ignored (not url_verification)")
            /\ raised' = raised
       ELSE IF data.t = "nondict" THEN
            /\ raised' = "AttributeError"
            /\ response' = response
       ELSE IF data.type # "url_verification" THEN
            /\ response' = Resp(200, "ok, ignored (not url_verification)")
            /\ raised' = raised
       ELSE /\ response' =
                  IF data.has_challenge /\ data.challenge # <<>>
                  THEN [status |-> 200, response |-> "",
                        json |-> JsonDumpsChallenge(data.challenge),
                        content_type |-> "application/json"]
                  ELSE Resp(400, "Bad Request: Missing 'challenge' parameter")
            /\ raised' = raised
    /\ pc' = "done"
    /\ UNCHANGED <<endpoint, r, settings, data, channel, message, response_data,
                   backend_calls, post_calls>>

----------------------------------------------------------------------------
\* _invoke has returned or raised; the host takes the next request.  Nothing
\* of a request outlives it.
NextRequest ==
    /\ pc = "done"
    /\ pc' = "idle"
    /\ endpoint' = "slack"
    /\ r' = NoRequest
    /\ settings' = NoSettings
    /\ data' = NoData
    /\ channel' = ""
    /\ message' = <<>>
    /\ response_data' = NoResponseData
    /\ response' = NoResponse
    /\ raised' = None
    /\ backend_calls' = <<>>
    /\ post_calls' = <<>>

Next ==
    \/ Receive
    \/ ParseBody
    \/ UrlVerification
    \/ RetrySuppression
    \/ EventCallback
    \/ ExtractMessage
    \/ CheckSettings
    \/ PostConfigNotice
    \/ InvokeBackend
    \/ PostReply
    \/ NotifyInternalError
    \/ VerifyParseBody
    \/ VerifyUrlVerification
    \/ NextRequest

Spec == Init /\ [][Next]_vars

----------------------------------------------------------------------------
(* The mention extraction on every text up to MaxTextLen: SlackEndpoint has  *)
(* received an app_mention of a user, with no retry header and with complete *)
(* settings, and handles it.                                                 *)

MentionRequests ==
    { [body |-> [kind |-> "json",
                 value |-> [NoData EXCEPT !.t = "dict", !.type = "event_callback",
                              !.event = [t |-> "dict", type |-> "app_mention",
                                         channel_type |-> "channel", bot_id |-> None,
                                         text |-> text, channel |-> "C1"]]],
       retry_num |-> None, retry_reason |-> None] :
      text \in SeqsUpTo(TextChars, MaxTextLen) }

InitMention ==
    /\ pc = "parse"
    /\ endpoint = "slack"
    /\ r \in MentionRequests
    /\ settings = [allow_retry |-> None, bot_token |-> "xoxb",
                   app |-> [t |-> "dict", app_id |-> "app1"]]
    /\ data = NoData
    /\ channel = ""
    /\ message = <<>>
    /\ response_data = NoResponseData
    /\ response = NoResponse
    /\ raised = None
    /\ backend_calls = <<>>
    /\ post_calls = <<>>

NextMention ==
    \/ ParseBody
    \/ UrlVerification
    \/ RetrySuppression
    \/ EventCallback
    \/ ExtractMessage
    \/ CheckSettings
    \/ InvokeBackend
    \/ PostReply
    \/ NotifyInternalError

SpecMention == InitMention /\ [][NextMention]_vars

----------------------------------------------------------------------------
(* Properties *)

\* The body of the request in hand parsed to a JSON object.
IsPayload == pc # "idle" /\ r.body.kind = "json" /\ r.body.value.t = "dict"

Payload == r.body.value

NoCalls == backend_calls = <<>> /\ post_calls = <<>>

\* The positions of SlackEndpoint._invoke up to and including the retry check.
UpToRetry == {"parse", "url_verification", "retry", "done"}

\* A JSON string body read back: a backslash quotes the character after it.
RECURSIVE JsonUnescape(_)
JsonUnescape(s) ==
    IF s = <<>> THEN <<>>
    ELSE IF Head(s) = "\\" /\ Len(s) >= 2
         THEN <<s[2]>> \o JsonUnescape(SubSeq(s, 3, Len(s)))
         ELSE <<Head(s)>> \o JsonUnescape(Tail(s))

\* No quote of s is bare and no backslash is left alone.
RECURSIVE JsonWellEscaped(_)
JsonWellEscaped(s) ==
    IF s = <<>> THEN TRUE
    ELSE IF Head(s) = "\\" THEN Len(s) >= 2 /\ JsonWellEscaped(SubSeq(s, 3, Len(s)))
    ELSE Head(s) # "\"" /\ JsonWellEscaped(Tail(s))

\* {"challenge": "
ChallengeOpening ==
    <<"{", "\"", "c", "h", "a", "l", "l", "e", "n", "g", "e", "\"", ":", " ", "\"">>

\* text is the JSON object with the one member "challenge", a string that
\* reads back as value.
IsChallengeJson(text, value) ==
    LET n == Len(ChallengeOpening)
    IN  /\ Len(text) >= n + 2
        /\ SubSeq(text, 1, n) = ChallengeOpening
        /\ SubSeq(text, Len(text) - 1, Len(text)) = <<"\"", "}">>
        /\ JsonWellEscaped(SubSeq(text, n + 1, Len(text) - 2))
        /\ JsonUnescape(SubSeq(text, n + 1, Len(text) - 2)) = value

IsChallengeRequest ==
    /\ IsPayload
    /\ Payload.type = "url_verification"
    /\ Payload.has_challenge
    /\ Payload.challenge # <<>>

\* C1: a request whose payload is a url_verification with a non-empty
\* challenge C is answered, by either endpoint and whatever the retry headers
\* and allow_retry are, with 200, application/json and the JSON object
\* {"challenge": C}; no backend or messaging call is made and the handler
\* goes no further than the challenge check.
C1_ChallengeAnswered ==
    IsChallengeRequest =>
        /\ NoCalls
        /\ raised = None
        /\ pc \in {"parse", "url_verification", "v_parse", "v_url_verification", "done"}
        /\ pc = "done" =>
              /\ response.status = 200
              /\ response.content_type = "application/json"
              /\ IsChallengeJson(response.json, Payload.challenge)

\* C1 witness: SlackEndpoint has answered a retried delivery of a challenge
\* that holds a quote, with retries not allowed.
C1_Witness ==
    /\ IsChallengeRequest
    /\ pc = "done"
    /\ endpoint = "slack"
    /\ r.retry_num = "1"
    /\ r.retry_reason = "http_timeout"
    /\ settings.allow_retry = "False"
    /\ Payload.challenge = <<"a", "\"", "a">>
    /\ response.status = 200

\* C2: SlackEndpoint._invoke ends every request by returning a response; no
\* exception leaves it.
C2_NoExceptionEscapes ==
    (endpoint = "slack" /\ pc = "done") => (raised = None /\ response # NoResponse)

IsRetriedDelivery ==
    /\ settings.allow_retry # "True"
    /\ \/ r.retry_reason = "http_timeout"
       \/ r.retry_num # None /\ IsIntLiteral(r.retry_num) /\ PyInt(r.retry_num) > 0

\* C3: with allow_retry false or absent, a delivery marked as a retry
\* (X-Slack-Retry-Reason http_timeout, or an integer X-Slack-Retry-Num above
\* 0) whose payload is no url_verification is answered by SlackEndpoint with
\* 200 "ok, retry ignored" at the retry check; no backend or messaging call
\* is made at any point.
C3_RetryIgnored ==
    (endpoint = "slack" /\ IsPayload /\ Payload.type # "url_verification"
        /\ IsRetriedDelivery) =>
        /\ NoCalls
        /\ raised = None
        /\ pc \in UpToRetry
        /\ pc = "done" => response = Resp(200, "ok, retry ignored")

\* C3 witness: a retried app_mention that would otherwise reach the backend
\* has been acknowledged.
C3_Witness ==
    /\ endpoint = "slack"
    /\ IsPayload
    /\ Payload.type = "event_callback"
    /\ Payload.event.t = "dict"
    /\ Payload.event.type = "app_mention"
    /\ Payload.event.bot_id = None
    /\ Payload.event.text = MentionHelloThere
    /\ settings.bot_token = "xoxb"
    /\ settings.app.app_id = "app1"
    /\ settings.allow_retry = None
    /\ r.retry_num = "1"
    /\ r.retry_reason = None
    /\ pc = "done"
    /\ response.status = 200

IsBotEvent ==
    /\ endpoint = "slack"
    /\ IsPayload
    /\ Payload.type = "event_callback"
    /\ Payload.event.t = "dict"
    /\ Payload.event.bot_id # None

\* C4: every event_callback whose event has a non-null bot_id is answered
\* by SlackEndpoint with 200, and no backend or messaging call is made.
C4_BotEventIgnored ==
    IsBotEvent =>
        /\ NoCalls
        /\ pc = "done" => response.status = 200

\* C5 as claimed: one request makes at most one backend call and at most one
\* chat_postMessage call, whatever the calls do.
C5_AtMostOneCallEach ==
    Len(backend_calls) <= 1 /\ Len(post_calls) <= 1

\* C5 amended: one request makes at most one backend call and at most one
\* chat_postMessage call, except that when the reply post raises an exception
\* other than SlackApiError one more call, the internal-error notice, follows.
C5_SecondPostOnlyAfterFailedReply ==
    /\ Len(backend_calls) <= 1
    /\ Len(post_calls) <= 2
    /\ Len(post_calls) = 2 =>
          /\ post_calls[1].site = "reply"
          /\ post_calls[1].result = "Exception"
          /\ post_calls[2].site = "internal_error"

\* C5 witness: the reply post raised and the internal-error notice was posted.
C5_Witness ==
    /\ pc = "done"
    /\ Len(backend_calls) = 1
    /\ Len(post_calls) = 2
    /\ post_calls[2].result = "ok"
    /\ response.status = 200

BackendRaised ==
    backend_calls # <<>> /\ backend_calls[1].outcome = "raised"

\* C6: when the backend invocation raises, SlackEndpoint._invoke returns 200,
\* attempts at most one error notice, posts no answer reply and lets no
\* exception out, also when the notice itself fails.
C6_BackendFailureAbsorbed ==
    BackendRaised =>
        /\ Len(post_calls) <= 1
        /\ \A i \in DOMAIN post_calls : post_calls[i].site = "internal_error"
        /\ raised = None
        /\ pc = "done" => response.status = 200

IsProcessableEvent ==
    /\ endpoint = "slack"
    /\ IsPayload
    /\ Payload.type = "event_callback"
    /\ Payload.event.t = "dict"
    /\ Payload.event.bot_id = None
    /\ \/ Payload.event.type = "app_mention" /\ ExtractMention(Payload.event.text) # <<>>
       \/ /\ Payload.event.type = "message"
          /\ Payload.event.channel_type = "im"
          /\ Payload.event.text # <<>>

\* C9: with bot_token missing or empty, a processable event is answered with
\* 200, and neither the messaging API nor the backend is called.
C9_MissingTokenNoCalls ==
    (IsProcessableEvent /\ settings.bot_token \in {None, ""}) =>
        /\ NoCalls
        /\ pc = "done" => response.status = 200

\* C10: an answer reply is posted only after the backend invocation of the
\* request returned without raising; it goes to event.channel and its text is
\* the backend's answer, or the fallback string when there is none; and
\* "ok, message sent" is returned only after that post succeeded.
C10_ReplyAfterBackend ==
    /\ \A i \in DOMAIN post_calls :
          post_calls[i].site = "reply" =>
              /\ i = 1
              /\ Len(backend_calls) = 1
              /\ backend_calls[1].outcome = "returned"
              /\ post_calls[i].channel =
                     (IF Payload.event.channel = None THEN "" ELSE Payload.event.channel)
              /\ post_calls[i].text =
                     (IF response_data.has_answer THEN response_data.answer
                      ELSE "Sorry, I could not get a response from the App.")
    /\ response.response = "ok, message sent" =>
          /\ Len(post_calls) = 1
          /\ post_calls[1].site = "reply"
          /\ post_calls[1].result = "ok"

\* C10 witness: the backend's answer has been posted to the event's channel
\* and the request acknowledged.
C10_Witness ==
    /\ pc = "done"
    /\ response.response = "ok, message sent"
    /\ response_data.has_answer
    /\ post_calls[1].text = "A1"
    /\ post_calls[1].channel = "C1"

----------------------------------------------------------------------------
(* The query of an app_mention *)

\* s[i..j-1] is a mention token with the whitespace that follows it: "<@",
\* word characters up to the ">" at w, then all the whitespace there is.
IsMentionAt(s, i, j) ==
    \E w \in (i + 3)..(j - 1) :
        /\ s[i] = "<"
        /\ s[i + 1] = "@"
        /\ \A k \in (i + 2)..(w - 1) : s[k] = "U"
        /\ s[w] = ">"
        /\ \A k \in (w + 1)..(j - 1) : s[k] = " "
        /\ j = Len(s) + 1 \/ s[j] # " "

\* The characters of s outside every mention token, in their order.
OutsideMentions(s) ==
    LET kept == {p \in 1..Len(s) :
                    ~\E i \in 1..p, j \in (p + 1)..(Len(s) + 1) : IsMentionAt(s, i, j)}
        nth(k) == CHOOSE p \in kept : Cardinality({q \in kept : q <= p}) = k
    IN  [k \in 1..Cardinality(kept) |-> s[nth(k)]]

\* s without the mention tokens that begin it.
RECURSIVE WithoutLeadingMentions(_)
WithoutLeadingMentions(s) ==
    IF \E j \in 2..(Len(s) + 1) : IsMentionAt(s, 1, j)
    THEN WithoutLeadingMentions(
             SubSeq(s, CHOOSE j \in 2..(Len(s) + 1) : IsMentionAt(s, 1, j), Len(s)))
    ELSE s

IsMentionHandled ==
    /\ endpoint = "slack"
    /\ IsPayload
    /\ Payload.type = "event_callback"
    /\ Payload.event.t = "dict"
    /\ Payload.event.type = "app_mention"
    /\ pc \notin {"parse", "url_verification", "retry", "event_callback", "extract"}
    /\ response.response \notin {"ok, retry ignored", "ok, ignored bot message"}
    /\ raised # "ValueError"

\* C7 as claimed: the query of an app_mention is event.text without the
\* mention tokens that begin it, trimmed, the rest unchanged.
C7_QueryIsTextWithoutLeadingMentions ==
    \A i \in DOMAIN backend_calls :
        IsMentionHandled =>
            backend_calls[i].query = Strip(WithoutLeadingMentions(Payload.event.text))

\* C7 amended: the query of an app_mention that passes all filters is
\* event.text with every mention token, wherever it stands in the text, and
\* the whitespace after it removed, then trimmed; if the result is empty the
\* backend is not invoked and the response is 200.
C7_QueryIsTextWithoutMentions ==
    IsMentionHandled =>
        /\ \A i \in DOMAIN backend_calls :
              backend_calls[i].query = Strip(OutsideMentions(Payload.event.text))
        /\ message = Strip(OutsideMentions(Payload.event.text))
        /\ message = <<>> =>
              /\ backend_calls = <<>>
              /\ pc = "done"
              /\ response = Resp(200, "ok, no action needed")

\* C7 witness: the backend was invoked for "U<@U>", a word followed by a
\* mention, with the query "U".
C7_Witness ==
    /\ IsMentionHandled
    /\ Payload.event.text = <<"U", "<", "@", "U", ">">>
    /\ backend_calls # <<>>
    /\ backend_calls[1].query = <<"U">>

====
